---- MODULE Spec2Model ----
(***************************************************************************)
(* CivicFeed, the Post resource: server/routes/posts.js over the Mongoose  *)
(* model server/models/Post.js.  Every route handler is an async function  *)
(* whose awaits are the points where other requests interleave: a handler  *)
(* is one step up to and including its findById (the "Find" actions) and   *)
(* one step for its save and response (the "Save" actions).  Handlers with *)
(* one store access (GET /, GET /:id, POST /) are one action.              *)
(*                                                                         *)
(* What the handlers call into is modelled by what it does:                *)
(*  - findById throws a CastError for an id that is no ObjectId and        *)
(*    resolves to null for an unknown one;                                 *)
(*  - save() validates the document against the schema and writes only the *)
(*    modified paths: a push on an array goes out as $push (and $inc __v), *)
(*    an array assigned as a whole as $set guarded by the __v that was     *)
(*    loaded (a mismatch is a VersionError), a scalar path as $set;        *)
(*  - every exception ends in the handler's catch, which answers 500;      *)
(*  - populate only resolves names in the response and is left out.        *)
(***************************************************************************)
EXTENDS Integers, Sequences, FiniteSets, TLC

VARIABLES
    db,        \* the posts collection: post id -> stored document, or NoPost
    inflight,  \* handler instance -> the document it loaded and changed, or Idle
    resp,      \* the last response sent (res.status(..).json(..))
    started    \* number of requests admitted so far

vars == <<db, inflight, resp, started>>

(***************************************************************************)
(* Bounds of the model.                                                    *)
(***************************************************************************)
MaxPosts == 2
MaxInflight == 2
MaxRequests == 3
MaxToggles == 4

PostIds == 1..MaxPosts
Slots == 1..MaxInflight

(***************************************************************************)
(* The callers the auth middleware lets through: req.user = {userId, role}.*)
(***************************************************************************)
Users == {"u1", "u2", "m1"}
Role(u) == IF u = "m1" THEN "municipal" ELSE "citizen"

NoPost == [absent |-> TRUE]
Idle == [op |-> "idle"]
NoResp == [op |-> "none"]

\* req.params.id that is no ObjectId string
BadId == 0
ReqIds == PostIds \cup {BadId}

(***************************************************************************)
(* PostSchema (server/models/Post.js).                                     *)
(***************************************************************************)
Categories == {"roads", "lighting", "sanitation", "water", "parks", "safety", "other"}
Statuses == {"reported", "in progress", "resolved"}
DefaultStatus == "reported"

\* a path of type String with required: true rejects undefined and ""
RequiredString(x) == x # ""

\* an ObjectId path accepts what casts to an ObjectId: here, a user id
CastsToObjectId(x) == x \in Users

(***************************************************************************)
(* Form fields arrive as strings; parseFloat gives a number or NaN.        *)
(***************************************************************************)
Numeral == [s \in {"0", "1", "2", "3", "9", "4000"} |->
              CASE s = "0" -> 0 [] s = "1" -> 1 [] s = "2" -> 2 [] s = "3" -> 3
                [] s = "9" -> 9 [] s = "4000" -> 4000]
ParseFloat(s) ==
    IF s \in DOMAIN Numeral THEN [nan |-> FALSE, val |-> Numeral[s]]
    ELSE [nan |-> TRUE, val |-> 0]

(***************************************************************************)
(* Sequence helpers: Array.prototype.includes / filter as Mongoose arrays  *)
(* implement them (ids compared through their string form).                *)
(***************************************************************************)
SetOf(seq) == {seq[i] : i \in 1..Len(seq)}
Includes(seq, u) == \E i \in 1..Len(seq) : seq[i] = u
Without(seq, u) == SelectSeq(seq, LAMBDA x : x # u)

Exists(id) == id \in PostIds /\ db[id] # NoPost
NumPosts == Cardinality({id \in PostIds : db[id] # NoPost})

\* a response: what was sent (code, body) and, for the properties, what the
\* handler found in the store when it wrote (was)
Response(op, caller, id, code, body, was) ==
    [op |-> op, caller |-> caller, id |-> id, code |-> code, body |-> body, was |-> was]
NoBody == [none |-> TRUE]

(***************************************************************************)
(* Post.findById(req.params.id): a malformed id throws a CastError, an     *)
(* unknown one resolves to null.                                           *)
(***************************************************************************)
IsObjectId(id) == id # BadId
FindById(id) ==
    IF ~IsObjectId(id) THEN "CastError"
    ELSE IF db[id] = NoPost THEN "null"
    ELSE "doc"

\* the early exits shared by the handlers that start with findById
FindFails(op, c, id) ==
    /\ FindById(id) # "doc"
    /\ resp' = Response(op, c, id, IF FindById(id) = "null" THEN 404 ELSE 500, NoBody, NoBody)
    /\ UNCHANGED <<db, inflight>>

(***************************************************************************)
(* POST /posts                                                             *)
(***************************************************************************)
NewPost(c, f) ==
    [title |-> f.title, description |-> f.description, category |-> f.category,
     coordinates |-> <<ParseFloat(f.lng), ParseFloat(f.lat)>>,
     status |-> DefaultStatus, author |-> c, assignedTo |-> "",
     upvotes |-> <<>>, likes |-> <<>>, comments |-> <<>>,
     createdAt |-> NumPosts + 1, v |-> 0]

ValidPost(p) ==
    /\ RequiredString(p.title)
    /\ RequiredString(p.description)
    /\ p.category \in Categories
    /\ \A i \in 1..2 : ~p.coordinates[i].nan
    /\ p.status \in Statuses
    /\ CastsToObjectId(p.author)

Stored(p) == [p EXCEPT !.coordinates = <<p.coordinates[1].val, p.coordinates[2].val>>]

Create(c, f) ==
    LET post == NewPost(c, f)
        id == NumPosts + 1
    IN  /\ IF ValidPost(post)
           THEN /\ NumPosts < MaxPosts
                /\ db' = [db EXCEPT ![id] = Stored(post)]
                /\ resp' = Response("create", c, id, 201,
                                    [status |-> post.status, author |-> post.author], NoBody)
           ELSE /\ db' = db
                /\ resp' = Response("create", c, BadId, 500, NoBody, NoBody)
        /\ UNCHANGED inflight

(***************************************************************************)
(* POST /posts/:id/like and POST /posts/:id/upvote.  push registers an     *)
(* atomic $push; assigning the filtered array is a $set of the whole array,*)
(* which save() sends with the loaded __v in its filter.                   *)
(***************************************************************************)
\* mutant: the filter compares an ObjectId with a string and removes nothing
ToggledKeepsAll(arr, c) == IF Includes(arr, c) THEN arr ELSE Append(arr, c)

Toggled(arr, c) == IF Includes(arr, c) THEN Without(arr, c) ELSE Append(arr, c)

ToggleFind(s, c, id, op, arr) ==
    /\ inflight[s] = Idle
    /\ \/ FindFails(op, c, id)
       \/ /\ FindById(id) = "doc"
          /\ inflight' = [inflight EXCEPT ![s] =
                [op |-> op, caller |-> c, id |-> id, v |-> db[id].v,
                 has |-> Includes(arr, c), arr |-> Toggled(arr, c)]]
          /\ UNCHANGED <<db, resp>>

LikeFind(s, c, id) == ToggleFind(s, c, id, "like", IF Exists(id) THEN db[id].likes ELSE <<>>)
UpvoteFind(s, c, id) == ToggleFind(s, c, id, "upvote", IF Exists(id) THEN db[id].upvotes ELSE <<>>)

\* the array save() leaves in the store, or the VersionError it throws
SavedArray(cur, r) ==
    IF ~r.has THEN [ok |-> TRUE, arr |-> Append(cur, r.caller)]
    ELSE IF db[r.id].v = r.v THEN [ok |-> TRUE, arr |-> r.arr]
    ELSE [ok |-> FALSE, arr |-> cur]

LikeSave(s) ==
    LET r == inflight[s]
        w == SavedArray(db[r.id].likes, r)
    IN  /\ r.op = "like"
        /\ db' = IF w.ok THEN [db EXCEPT ![r.id].likes = w.arr, ![r.id].v = @ + 1] ELSE db
        /\ resp' = IF w.ok
                   THEN Response("like", r.caller, r.id, 200,
                                 [count |-> Len(r.arr), flag |-> ~r.has],
                                 [v |-> r.v, arr |-> db[r.id].likes])
                   ELSE Response("like", r.caller, r.id, 500, NoBody, NoBody)
        /\ inflight' = [inflight EXCEPT ![s] = Idle]

UpvoteSave(s) ==
    LET r == inflight[s]
        w == SavedArray(db[r.id].upvotes, r)
    IN  /\ r.op = "upvote"
        /\ db' = IF w.ok THEN [db EXCEPT ![r.id].upvotes = w.arr, ![r.id].v = @ + 1] ELSE db
        /\ resp' = IF w.ok
                   THEN Response("upvote", r.caller, r.id, 200,
                                 [count |-> Len(r.arr), flag |-> ~r.has],
                                 [v |-> r.v, arr |-> db[r.id].upvotes])
                   ELSE Response("upvote", r.caller, r.id, 500, NoBody, NoBody)
        /\ inflight' = [inflight EXCEPT ![s] = Idle]

(***************************************************************************)
(* PUT /posts/:id.  Assigning a path the value it already has leaves it    *)
(* unmodified; save() validates and $sets the modified paths only.         *)
(***************************************************************************)
\* mutant: the role test inverted
ForbiddenUnlessCitizen(post, c) == post.author # c /\ Role(c) = "municipal"

Forbidden(post, c) == post.author # c /\ Role(c) # "municipal"

PutFind(s, c, id, body) ==
    /\ inflight[s] = Idle
    /\ \/ FindFails("put", c, id)
       \/ /\ FindById(id) = "doc"
          /\ Forbidden(db[id], c)
          /\ resp' = Response("put", c, id, 403, NoBody, NoBody)
          /\ UNCHANGED <<db, inflight>>
       \/ /\ FindById(id) = "doc"
          /\ ~Forbidden(db[id], c)
          /\ inflight' = [inflight EXCEPT ![s] =
                [op |-> "put", caller |-> c, id |-> id, body |-> body, loaded |-> db[id].status,
                 status |-> IF body.status # "" THEN body.status ELSE db[id].status,
                 assignedTo |-> IF body.assignedTo # "" THEN body.assignedTo ELSE db[id].assignedTo,
                 modStatus |-> body.status # "" /\ body.status # db[id].status,
                 modAssignedTo |-> body.assignedTo # "" /\ body.assignedTo # db[id].assignedTo]]
          /\ UNCHANGED <<db, resp>>

\* mutant: the status may only move forward
StatusRank(st) == IF st = "reported" THEN 1 ELSE IF st = "in progress" THEN 2 ELSE 3
ValidForwardUpdate(r) ==
    /\ r.modStatus => r.status \in Statuses /\ StatusRank(r.loaded) <= StatusRank(r.status)
    /\ r.modAssignedTo => CastsToObjectId(r.assignedTo)

ValidUpdate(r) ==
    /\ r.modStatus => r.status \in Statuses
    /\ r.modAssignedTo => CastsToObjectId(r.assignedTo)

\* mutant: the update also takes the post over for its caller
PutSaveTakingOver(s) ==
    LET r == inflight[s]
    IN  /\ r.op = "put"
        /\ IF ValidUpdate(r)
           THEN /\ db' = [db EXCEPT ![r.id].status = IF r.modStatus THEN r.status ELSE @,
                                    ![r.id].assignedTo = IF r.modAssignedTo THEN r.assignedTo ELSE @,
                                    ![r.id].author = r.caller]
                /\ resp' = Response("put", r.caller, r.id, 200,
                                    [status |-> r.status, assignedTo |-> r.assignedTo],
                                    [status |-> db[r.id].status])
           ELSE /\ db' = db
                /\ resp' = Response("put", r.caller, r.id, 500, NoBody, NoBody)
        /\ inflight' = [inflight EXCEPT ![s] = Idle]

PutSave(s) ==
    LET r == inflight[s]
    IN  /\ r.op = "put"
        /\ IF ValidUpdate(r)
           THEN /\ db' = [db EXCEPT ![r.id].status = IF r.modStatus THEN r.status ELSE @,
                                    ![r.id].assignedTo = IF r.modAssignedTo THEN r.assignedTo ELSE @]
                /\ resp' = Response("put", r.caller, r.id, 200,
                                    [status |-> r.status, assignedTo |-> r.assignedTo],
                                    [status |-> db[r.id].status])
           ELSE /\ db' = db
                /\ resp' = Response("put", r.caller, r.id, 500, NoBody, NoBody)
        /\ inflight' = [inflight EXCEPT ![s] = Idle]

(***************************************************************************)
(* POST /posts/:id/comments.  push on the document array is an atomic      *)
(* $push; the subdocument's text is required.                              *)
(***************************************************************************)
NewComment(c, text) == [user |-> c, text |-> text]

CommentFind(s, c, id, text) ==
    /\ inflight[s] = Idle
    /\ \/ FindFails("comment", c, id)
       \/ /\ FindById(id) = "doc"
          /\ inflight' = [inflight EXCEPT ![s] =
                [op |-> "comment", caller |-> c, id |-> id,
                 comments |-> Append(db[id].comments, NewComment(c, text))]]
          /\ UNCHANGED <<db, resp>>

ValidComment(cm) == CastsToObjectId(cm.user) /\ RequiredString(cm.text)

CommentSave(s) ==
    LET r == inflight[s]
        pushed == r.comments[Len(r.comments)]
    IN  /\ r.op = "comment"
        /\ IF ValidComment(pushed)
           THEN /\ db' = [db EXCEPT ![r.id].comments = Append(@, pushed), ![r.id].v = @ + 1]
                /\ resp' = Response("comment", r.caller, r.id, 200, r.comments, NoBody)
           ELSE /\ db' = db
                /\ resp' = Response("comment", r.caller, r.id, 500, NoBody, NoBody)
        /\ inflight' = [inflight EXCEPT ![s] = Idle]

(***************************************************************************)
(* GET /posts/:id (no auth)                                                *)
(***************************************************************************)
GetById(id) ==
    \/ FindFails("get", "", id)
    \/ /\ FindById(id) = "doc"
       /\ resp' = Response("get", "", id, 200, db[id], NoBody)
       /\ UNCHANGED <<db, inflight>>

(***************************************************************************)
(* GET /posts (no auth).  near is the query string split at its commas.    *)
(* The store measures distance on the sphere; here coordinates are points  *)
(* of a 1 km grid and the distance is the grid distance in metres.         *)
(***************************************************************************)
DefaultLimit == 20
DefaultPage == 1
DefaultRadius == 5000

Abs(x) == IF x < 0 THEN -x ELSE x
Distance(a, b) == 1000 * (Abs(a[1] - b[1]) + Abs(a[2] - b[2]))

\* const [lat, lng, radius = 5000] = near.split(',').map(Number)
NearPoint(near) == <<Numeral[near[2]], Numeral[near[1]]>>
NearRadius(near) == IF Len(near) >= 3 THEN Numeral[near[3]] ELSE DefaultRadius

\* mutant: the location filter left out of the query
MatchesAnywhere(p, q) ==
    /\ q.category # "" => p.category = q.category
    /\ q.status # "" => p.status = q.status

Matches(p, q) ==
    /\ q.category # "" => p.category = q.category
    /\ q.status # "" => p.status = q.status
    /\ q.near # <<>> => Distance(p.coordinates, NearPoint(q.near)) <= NearRadius(q.near)

\* .sort({ createdAt: -1 }): an explicit sort replaces the order $near gives
RECURSIVE NewestFirst(_)
NewestFirst(ids) ==
    IF ids = {} THEN <<>>
    ELSE LET top == CHOOSE i \in ids : \A j \in ids : db[j].createdAt <= db[i].createdAt
         IN  <<top>> \o NewestFirst(ids \ {top})

Limit(q) == IF q.limit = "" THEN DefaultLimit ELSE Numeral[q.limit]
Skip(q) == ((IF q.page = "" THEN DefaultPage ELSE Numeral[q.page]) - 1) * Limit(q)

Page(seq, q) ==
    LET last == IF Skip(q) + Limit(q) < Len(seq) THEN Skip(q) + Limit(q) ELSE Len(seq)
    IN  SubSeq(seq, Skip(q) + 1, last)

Find(q) == Page(NewestFirst({id \in PostIds : db[id] # NoPost /\ Matches(db[id], q)}), q)

List(q) ==
    /\ resp' = Response("list", "", BadId, 200, Find(q), [query |-> q])
    /\ UNCHANGED <<db, inflight>>

(***************************************************************************)
(* Specifications.                                                         *)
(***************************************************************************)
Init ==
    /\ db = [id \in PostIds |-> NoPost]
    /\ inflight = [s \in Slots |-> Idle]
    /\ resp = NoResp
    /\ started = 0

\* a request is admitted while the budget lasts and taken by a free handler
\* instance (handler instances are interchangeable: the lowest free one)
Admit(n) == started < n /\ started' = started + 1
Free(s) == inflight[s] = Idle /\ \A t \in Slots : t < s => inflight[t] # Idle

SimpleFields == [title |-> "Pothole", description |-> "Deep", category |-> "roads", lat |-> "0", lng |-> "0"]

\* request payloads: "" is a field the client left out
CreateInputs ==
    {SimpleFields} \cup
    {[SimpleFields EXCEPT !.title = ""], [SimpleFields EXCEPT !.description = ""],
     [SimpleFields EXCEPT !.category = ""], [SimpleFields EXCEPT !.category = "potholes"],
     [SimpleFields EXCEPT !.lat = ""], [SimpleFields EXCEPT !.lng = "east"]}
PlacedInputs ==
    {[SimpleFields EXCEPT !.lat = la, !.category = ca] : la \in {"0", "3", "9"}, ca \in {"roads", "water"}}
NoUpdate == [status |-> "", assignedTo |-> ""]
PutInputs ==
    {[NoUpdate EXCEPT !.status = st] : st \in {"", "reported", "in progress", "in_progress", "resolved"}}
    \cup {[NoUpdate EXCEPT !.assignedTo = a] : a \in {"m1", "nobody"}}
    \cup {[status |-> "resolved", assignedTo |-> "m1"]}
Texts == {"", "fix it"}
NoQuery == [category |-> "", status |-> "", near |-> <<>>, limit |-> "", page |-> ""]
ListInputs ==
    {[NoQuery EXCEPT !.near = ne, !.limit = li, !.page = pa] :
        ne \in {<<>>, <<"0", "0">>, <<"3", "0", "4000">>, <<"9", "0", "0">>},
        li \in {"", "1"}, pa \in {"", "2"}}
    \cup {[NoQuery EXCEPT !.status = "resolved"], [NoQuery EXCEPT !.category = "water"]}

(***************************************************************************)
(* Spec: every handler that writes, interleaved at the awaits, at most     *)
(* MaxRequests requests.                                                   *)
(***************************************************************************)
DoCreate == \E c \in Users, f \in CreateInputs : Admit(MaxRequests) /\ Create(c, f)
DoPutFind == \E s \in Slots, c \in Users, id \in ReqIds, b \in PutInputs :
                Free(s) /\ Admit(MaxRequests) /\ PutFind(s, c, id, b)
DoPutSave == \E s \in Slots : PutSave(s) /\ UNCHANGED started
DoCommentFind == \E s \in Slots, c \in Users, id \in ReqIds, t \in Texts :
                Free(s) /\ Admit(MaxRequests) /\ CommentFind(s, c, id, t)
DoCommentSave == \E s \in Slots : CommentSave(s) /\ UNCHANGED started
DoLikeSave == \E s \in Slots : LikeSave(s) /\ UNCHANGED started
DoUpvoteSave == \E s \in Slots : UpvoteSave(s) /\ UNCHANGED started

\* the traffic of Spec: every handler, with payloads that pass validation and
\* ids of posts stored or yet to be stored
SomePutInputs == {[status |-> "resolved", assignedTo |-> ""], [status |-> "in progress", assignedTo |-> "m1"]}
AnyCreate == \E c \in Users : Admit(MaxRequests) /\ Create(c, SimpleFields)
AnyPutFind == \E s \in Slots, c \in Users, id \in PostIds, b \in SomePutInputs :
                Free(s) /\ Admit(MaxRequests) /\ PutFind(s, c, id, b)
AnyCommentFind == \E s \in Slots, c \in Users, id \in PostIds :
                Free(s) /\ Admit(MaxRequests) /\ CommentFind(s, c, id, "fix it")
AnyLikeFind == \E s \in Slots, c \in Users, id \in PostIds :
                Free(s) /\ Admit(MaxRequests) /\ LikeFind(s, c, id)
AnyUpvoteFind == \E s \in Slots, c \in Users, id \in PostIds :
                Free(s) /\ Admit(MaxRequests) /\ UpvoteFind(s, c, id)

Next ==
    \/ AnyCreate \/ AnyPutFind \/ DoPutSave \/ AnyCommentFind \/ DoCommentSave
    \/ AnyLikeFind \/ DoLikeSave \/ AnyUpvoteFind \/ DoUpvoteSave
Spec == Init /\ [][Next]_vars

(***************************************************************************)
(* The same handlers, one resource at a time.                              *)
(***************************************************************************)
PutNext == DoCreate \/ DoPutFind \/ DoPutSave
PutSpec == Init /\ [][PutNext]_vars

CommentNext == DoCreate \/ DoCommentFind \/ DoCommentSave
CommentSpec == Init /\ [][CommentNext]_vars

\* likes and upvotes of posts of u1, at most MaxToggles requests
ToggleCreate == Admit(MaxToggles) /\ Create("u1", SimpleFields)
ToggleLikeFind == \E s \in Slots, c \in Users, id \in ReqIds :
                Free(s) /\ Admit(MaxToggles) /\ LikeFind(s, c, id)
ToggleUpvoteFind == \E s \in Slots, c \in Users, id \in ReqIds :
                Free(s) /\ Admit(MaxToggles) /\ UpvoteFind(s, c, id)
ToggleNext == ToggleCreate \/ ToggleLikeFind \/ DoLikeSave \/ ToggleUpvoteFind \/ DoUpvoteSave
ToggleSpec == Init /\ [][ToggleNext]_vars

\* the same, each request answered before the next is taken
AllIdle == \A s \in Slots : inflight[s] = Idle
SerialLikeFind == AllIdle /\ ToggleLikeFind
SerialUpvoteFind == AllIdle /\ ToggleUpvoteFind
SerialNext == ToggleCreate \/ SerialLikeFind \/ DoLikeSave \/ SerialUpvoteFind \/ DoUpvoteSave
SerialSpec == Init /\ [][SerialNext]_vars

\* the reads, over posts of u1 at several places
ReadCreate == \E f \in PlacedInputs : Create("u1", f) /\ UNCHANGED started
ReadGetById == \E id \in ReqIds : GetById(id) /\ UNCHANGED started
ReadList == \E q \in ListInputs : List(q) /\ UNCHANGED started
ReadNext == ReadCreate \/ ReadGetById \/ ReadList
ReadSpec == Init /\ [][ReadNext]_vars

(***************************************************************************)
(* Properties.                                                             *)
(***************************************************************************)
Member(arr, u) == u \in SetOf(arr)
Flip(set, u) == IF u \in set THEN set \ {u} ELSE set \cup {u}
NoDuplicates(arr) == Cardinality(SetOf(arr)) = Len(arr)
IsPrefix(a, b) == Len(a) <= Len(b) /\ SubSeq(b, 1, Len(a)) = a
Outsider(post, c) == post.author # c /\ Role(c) # "municipal"

\* C1: a PUT on an existing post by a caller who is neither its author nor
\* municipal is answered 403 whatever the payload, changes nothing in the
\* store and leaves no update pending.
C1_OutsiderForbidden ==
    [][\A id \in PostIds : Exists(id) =>
         \A c \in Users : Outsider(db[id], c) =>
           \A s \in Slots, b \in PutInputs :
             PutFind(s, c, id, b)
                => /\ resp'.op = "put" /\ resp'.caller = c /\ resp'.id = id /\ resp'.code = 403
                   /\ db' = db
                   /\ inflight' = inflight]_vars

C1_Witness ==
    /\ resp.op = "put" /\ resp.code = 403
    /\ Exists(resp.id) /\ Outsider(db[resp.id], resp.caller)

\* C2: a like (upvote) on an existing post, answered before any other request
\* is taken, flips the caller's membership in likes (upvotes) and nothing else
\* in the store, answers 200 with the size of the new set and the caller's new
\* membership; and when the previous response was the same caller's toggle of
\* the same set of the same post, the set is back to what it was before that.
ToggleFlips(s, op, before, after) ==
    LET r == inflight[s]
    IN  /\ SetOf(after) = Flip(SetOf(before), r.caller)
        /\ resp'.op = op /\ resp'.code = 200
        /\ resp'.body.count = Cardinality(SetOf(after))
        /\ resp'.body.flag = Member(after, r.caller)
        /\ (resp.op = op /\ resp.code = 200 /\ resp.caller = r.caller /\ resp.id = r.id)
              => SetOf(after) = SetOf(resp.was.arr)

C2_ToggleFlips ==
    [][\A s \in Slots :
        /\ LikeSave(s) =>
              /\ ToggleFlips(s, "like", db[inflight[s].id].likes, db'[inflight[s].id].likes)
              /\ db' = [db EXCEPT ![inflight[s].id].likes = db'[inflight[s].id].likes, ![inflight[s].id].v = @ + 1]
        /\ UpvoteSave(s) =>
              /\ ToggleFlips(s, "upvote", db[inflight[s].id].upvotes, db'[inflight[s].id].upvotes)
              /\ db' = [db EXCEPT ![inflight[s].id].upvotes = db'[inflight[s].id].upvotes, ![inflight[s].id].v = @ + 1]]_vars

C2_Witness ==
    /\ resp.op = "like" /\ resp.code = 200
    /\ ~resp.body.flag /\ resp.body.count = 1
    /\ Member(resp.was.arr, resp.caller) /\ ~Member(db[resp.id].likes, resp.caller)

\* C3: no user appears twice in a post's likes, nor twice in its upvotes.
C3_NoDuplicateVotes ==
    \A id \in PostIds : Exists(id) => NoDuplicates(db[id].likes) /\ NoDuplicates(db[id].upvotes)

\* C4: when a toggle is saved and the toggle answered just before it was
\* another user's on the same set of the same post, read at the same version
\* of the post, then the later one succeeds too and the set is the one both
\* read with both users flipped.
BothFlipped(s, op, after) ==
    LET r == inflight[s]
    IN  (/\ resp.op = op /\ resp.code = 200 /\ resp.id = r.id /\ resp.caller # r.caller
         /\ resp.was.v = r.v /\ db[r.id].v = r.v + 1)
            => /\ resp'.code = 200
               /\ SetOf(after) = Flip(Flip(SetOf(resp.was.arr), resp.caller), r.caller)

C4_ConcurrentTogglesKept ==
    [][\A s \in Slots :
        /\ LikeSave(s) => BothFlipped(s, "like", db'[inflight[s].id].likes)
        /\ UpvoteSave(s) => BothFlipped(s, "upvote", db'[inflight[s].id].upvotes)]_vars

\* C5: GET /posts/:id with an id that identifies no stored post is answered 404.
C5_AbsentIsNotFound ==
    (resp.op = "get" /\ ~Exists(resp.id)) => resp.code = 404

\* C6: POST /posts with a required field missing or malformed is answered 400
\* and stores no post.
WellFormedFields(f) ==
    /\ f.title # "" /\ f.description # ""
    /\ f.category \in {"roads", "lighting", "sanitation", "water", "parks", "safety", "other"}
    /\ f.lat \in {"0", "3", "9"} /\ f.lng \in {"0", "3", "9"}

C6_InvalidCreateIs400 ==
    [][\A c \in Users, f \in CreateInputs :
        (Create(c, f) /\ ~WellFormedFields(f)) => (resp'.code = 400 /\ db' = db)]_vars

\* C7: the author of an existing post, or a municipal caller, is let through
\* to the update; an update that asks for one of the given status values (and
\* for no assignee or a user) on a post whose status nobody changed since the
\* handler read it is answered 200 and stores that status, whatever the status
\* was; and every stored status is one of the given values.
StatusSettable(values) ==
    /\ \A id \in PostIds : Exists(id) =>
          \A c \in Users : ~Outsider(db[id], c) =>
            \A s \in Slots, b \in PutInputs :
              PutFind(s, c, id, b)
                  => (inflight'[s].op = "put" /\ inflight'[s].caller = c /\ resp' = resp)
    /\ \A s \in Slots :
          (/\ PutSave(s)
           /\ inflight[s].body.status \in values
           /\ inflight[s].body.assignedTo \in {""} \cup Users
           /\ db[inflight[s].id].status = inflight[s].loaded)
              => (resp'.code = 200 /\ db'[inflight[s].id].status = inflight[s].body.status)
    /\ \A id \in PostIds : db'[id] # NoPost => db'[id].status \in values

C8_AuthorFixed ==
    [][/\ \A id \in PostIds :
            Exists(id) => (db'[id] # NoPost /\ db'[id].author = db[id].author)
       /\ \A id \in PostIds :
            (~Exists(id) /\ db'[id] # NoPost)
                => /\ resp'.op = "create" /\ resp'.code = 201 /\ resp'.id = id
                   /\ db'[id].author = resp'.caller /\ db'[id].status = "reported"
       /\ \A c \in Users :
            (db' # db /\ Create(c, SimpleFields)) => (resp'.caller = c /\ resp'.body.author = c)]_vars

C8_Witness ==
    /\ resp.op \in {"comment", "like", "upvote"} /\ resp.code = 200
    /\ resp.caller # db[resp.id].author
    /\ db[resp.id].status # "reported"

\* C9: a comment request on an id with no stored post is answered 404 and
\* changes nothing; a comment saved on an existing post appends exactly the
\* caller's comment with the given text; and no step changes or removes a
\* stored comment.
C9_CommentsAppendOnly ==
    [][/\ \A id \in ReqIds : ~Exists(id) =>
            \A s \in Slots, c \in Users, t \in Texts :
                CommentFind(s, c, id, t) => (resp'.code = 404 /\ db' = db)
       /\ \A s \in Slots :
            CommentSave(s) =>
                db'[inflight[s].id].comments =
                    Append(db[inflight[s].id].comments, inflight[s].comments[Len(inflight[s].comments)])
       /\ \A id \in PostIds :
            Exists(id) => IsPrefix(db[id].comments, db'[id].comments)]_vars

\* C10: what GET /posts answers to a query with near.
Listed(i) == db[resp.body[i]]
AskedPoint == <<Numeral[resp.was.query.near[2]], Numeral[resp.was.query.near[1]]>>
AskedRadius == IF Len(resp.was.query.near) = 3 THEN Numeral[resp.was.query.near[3]] ELSE 5000
Away(i) == Distance(Listed(i).coordinates, AskedPoint)
NearAnswer == resp.op = "list" /\ resp.was.query.near # <<>>
OnlyWithinRadius ==
    \A i \in 1..Len(resp.body) : Exists(resp.body[i]) /\ Away(i) <= AskedRadius

\* C10 as amended: only posts within the radius (5000 m when none is given),
\* newest first.
C10_NearNewestFirst ==
    NearAnswer =>
        /\ OnlyWithinRadius
        /\ \A i, j \in 1..Len(resp.body) : i < j => Listed(i).createdAt > Listed(j).createdAt

\* C10 as stated: only posts within the radius, nearest first.
C10_AsStated ==
    NearAnswer =>
        /\ OnlyWithinRadius
        /\ \A i, j \in 1..Len(resp.body) : i < j => Away(i) <= Away(j)

C10_Witness ==
    /\ NearAnswer /\ Len(resp.body) = 2
    /\ Away(1) > Away(2)
    /\ Len(resp.was.query.near) = 2

====
